---- MODULE Spec2Model ----
(***************************************************************************)
(* Model of the SkePU MapPairs OpenCL back-end generator                   *)
(* (src/src/skepu-tool/mappairs_cl.cpp): the generated kernel's            *)
(* grid-stride loop, the generated host wrapper class (kernels /           *)
(* initialize / map) and the generator createMapPairsKernelProgram_CL.     *)
(***************************************************************************)
EXTENDS Integers, Sequences, FiniteSets, TLC

VARIABLES
    \* ---- one launch of the generated kernel (MapPairsKernelTemplate_CL)
    localSize,      \* get_local_size(0)
    numGroups,      \* get_num_groups(0)
    n,              \* kernel argument n
    i,              \* i[g]: the loop variable of the work-item with global id g
    output,         \* output[k]: how many times output[k] has been written
    \* ---- the generated wrapper class (Constructor) at run time
    m_devices_CL,   \* Environment<int>::getInstance()->m_devices_CL
    arr,            \* static cl_kernel arr[8] of kernels()
    initialized,    \* static bool initialized of initialize()
    pc,             \* pc[t]: where host thread t is inside initialize()
    counter,        \* counter[t]: the local size_t counter of initialize()
    it,             \* it[t]: position of the range-for over m_devices_CL
    nextSerial,     \* serial number of the next cl_kernel object created
    fatal,          \* a build error ended the run
    enqueued,       \* what the last map() handed to clEnqueueNDRangeKernel
    oob,            \* arr was indexed outside its 8 elements
    calls,          \* number of initialize() calls made so far
    overlapped,     \* two initialize() calls have been active at once
    buildLog,       \* the devices built so far, in build order
    slotWrites,     \* slotWrites[k]: number of writes made to arr[k]
    \* ---- the precompiler running createMapPairsKernelProgram_CL
    ResultName,     \* the -name option (skepu.cpp), a sequence of characters
    argMapFunc,     \* the mapFunc argument of the last call
    argVarity,      \* the Varity argument of the last call
    argHarity,      \* the Harity argument of the last call
    streams,        \* the string streams and locals of the last call at line 193
    finalSource,    \* finalSource of the last call at line 244
    outFiles,       \* the files written so far: <<kernel name, content>>
    generated       \* the calls made so far and the kernel names they returned

kernelVars == <<localSize, numGroups, n, i, output>>

hostVars == <<m_devices_CL, arr, initialized, pc, counter, it, nextSerial,
              fatal, enqueued, oob, calls, overlapped, buildLog, slotWrites>>

genVars == <<ResultName, argMapFunc, argVarity, argHarity, streams, finalSource,
             outFiles, generated>>

vars == <<kernelVars, hostVars, genVars>>

(***************************************************************************)
(* Bounds of the model.                                                    *)
(***************************************************************************)
MaxN == 5
MaxLocalSize == 2
MaxNumGroups == 3
MaxDevices == 3
MaxThreads == 2
MaxCalls == 3
MaxVarity == 2
MaxHarity == 2
MaxContainers == 2
MaxScalars == 1
MaxNameArity == 11

(***************************************************************************)
(* The generated kernel, mappairs_cl.cpp lines 9-24.                       *)
(***************************************************************************)

\* size_t arithmetic wraps; the width is scaled down from 64 bits.  n counts
\* the elements of an allocated output buffer and the work-items are real,
\* so n + gridSize stays below the modulus here as it does in the program.
SizeMod == 2 ^ 10

\* The largest index the model can record a write at.
OutTop == MaxN + (MaxLocalSize + 1) * (MaxNumGroups + 1)

GridSizeLocalOnly(ls, ng) == ls

\* line 13: size_t gridSize = get_local_size(0) * get_num_groups(0);
GridSize(ls, ng) == (ls * ng) % SizeMod

gridSize == GridSize(localSize, numGroups)

\* The global ids of a one-dimensional NDRange of numGroups groups of
\* localSize work-items (line 12: size_t i = get_global_id(0)).
WorkItems == 0 .. (localSize * numGroups - 1)

(***************************************************************************)
(* The generated wrapper class, mappairs_cl.cpp lines 27-78.               *)
(***************************************************************************)

\* line 34: static cl_kernel arr[8]; // Hard-coded maximum
MaxKernels == 8

Threads == 1 .. MaxThreads

\* A cl_kernel object: the device it was built for and its identity.  A
\* zero-initialised element of arr holds no kernel.
NullKernel == [device |-> 0, serial |-> 0]

\* The registered devices are distinct objects; device ordinal k (from 0) is
\* element k + 1 of the list.
DeviceLists == {[k \in 1 .. d |-> 100 + k] : d \in 0 .. MaxDevices}

\* The wrapper before any call; also the value of the wrapper's variables in
\* the specifications that are not about it.
HostFresh ==
    /\ arr = [k \in 0 .. (MaxKernels - 1) |-> NullKernel]
    /\ initialized = FALSE
    /\ pc = [t \in Threads |-> "idle"]
    /\ counter = [t \in Threads |-> 0]
    /\ it = [t \in Threads |-> 1]
    /\ nextSerial = 1
    /\ fatal = FALSE
    /\ enqueued = << >>
    /\ oob = FALSE
    /\ calls = 0
    /\ overlapped = FALSE
    /\ buildLog = << >>
    /\ slotWrites = [k \in 0 .. (MaxKernels - 1) |-> 0]

HostIdle == m_devices_CL = << >> /\ HostFresh

\* A UserFunction without parameters.
NoParams(uniqueName) ==
    [ uniqueName |-> uniqueName,
      resolvedReturnTypeName |-> "float",
      indexed1D |-> FALSE,
      indexed2D |-> FALSE,
      Varity |-> 0,
      Harity |-> 0,
      requiresDoublePrecision |-> FALSE,
      elwiseParams |-> << >>,
      anyContainerParams |-> << >>,
      anyScalarParams |-> << >>,
      code |-> "return 0;" ]

\* No call of the generator has been made.
GenFresh ==
    /\ argMapFunc = NoParams("")
    /\ argVarity = 0
    /\ argHarity = 0
    /\ streams = << >>
    /\ finalSource = << >>
    /\ outFiles = {}
    /\ generated = << >>

\* The generator does not run in the specifications that are not about it.
GenIdle == ResultName = << >> /\ GenFresh

\* No kernel launch is modelled in the specifications that are not about it.
KernelIdle ==
    /\ localSize = 1
    /\ numGroups = 1
    /\ n = 0
    /\ i = [g \in 0 .. 0 |-> g]
    /\ output = [k \in 0 .. OutTop |-> 0]

InitKernel ==
    /\ localSize \in 1 .. MaxLocalSize
    /\ numGroups \in 1 .. MaxNumGroups
    /\ n \in 0 .. MaxN
    /\ i = [g \in 0 .. (localSize * numGroups - 1) |-> g]
    /\ output = [k \in 0 .. OutTop |-> 0]
    /\ HostIdle
    /\ GenIdle

\* lines 16-22: one iteration of the while loop of work-item g.
KernelIterate(g) ==
    /\ i[g] < n
    /\ output' = [output EXCEPT ![i[g]] = @ + 1]
    /\ i' = [i EXCEPT ![g] = (@ + gridSize) % SizeMod]
    /\ UNCHANGED <<localSize, numGroups, n>>
    /\ UNCHANGED hostVars
    /\ UNCHANGED genVars

KernelDone == \A g \in WorkItems : ~(i[g] < n)

NextKernel == \E g \in WorkItems : KernelIterate(g)

SpecKernel == InitKernel /\ [][NextKernel]_vars

\* C1: at any time no index is written more than once (so no two work-items
\* and no two iterations share an index) and no index >= n is written; once
\* every work-item has left its loop, every index below n has been written
\* exactly once.
GridStrideCoversExactlyOnce ==
    /\ \A k \in 0 .. OutTop : output[k] <= 1
    /\ \A k \in 0 .. OutTop : k >= n => output[k] = 0
    /\ KernelDone => \A k \in 0 .. (n - 1) : output[k] = 1

\* A finished launch with fewer work-items than elements, several work-items,
\* and a work-item that ran its loop more than once.
GridStrideWitness ==
    /\ KernelDone
    /\ n = MaxN
    /\ localSize * numGroups = 2
    /\ numGroups = 2
    /\ \A k \in 0 .. (n - 1) : output[k] = 1

(***************************************************************************)
(* Host threads calling the wrapper's static functions.                    *)
(***************************************************************************)

InitHost ==
    /\ KernelIdle
    /\ m_devices_CL \in DeviceLists
    /\ HostFresh
    /\ GenIdle

\* lines 35-38: kernels(deviceID, &newkernel) stores into arr[deviceID].
\* Outside the array the store is undefined; the model leaves arr alone and
\* records the access in oob.
KernelsStore(a, deviceID, newkernel) ==
    IF deviceID < MaxKernels THEN [a EXCEPT ![deviceID] = newkernel] ELSE a

\* line 40: kernels(deviceID) returns arr[deviceID].
KernelsLoad(a, deviceID) ==
    IF deviceID < MaxKernels THEN a[deviceID] ELSE NullKernel

FlagNeverSet == FALSE

\* line 63: initialized = true;
FlagAfterBuild == TRUE

\* line 43: a host thread enters initialize().
CallInitialize(t) ==
    /\ ~fatal
    /\ pc[t] = "idle"
    /\ calls < MaxCalls
    /\ calls' = calls + 1
    /\ overlapped' = (overlapped \/ \E u \in Threads : u # t /\ pc[u] # "idle")
    /\ pc' = [pc EXCEPT ![t] = "test"]
    /\ UNCHANGED <<m_devices_CL, arr, initialized, counter, it, nextSerial,
                   fatal, enqueued, oob, buildLog, slotWrites>>
    /\ UNCHANGED kernelVars
    /\ UNCHANGED genVars

\* lines 45-52: the test of the flag; a set flag returns at once, otherwise
\* the loop starts with counter = 0.
TestInitialized(t) ==
    /\ ~fatal
    /\ pc[t] = "test"
    /\ IF initialized
       THEN /\ pc' = [pc EXCEPT ![t] = "idle"]
            /\ UNCHANGED <<counter, it>>
       ELSE /\ pc' = [pc EXCEPT ![t] = "loop"]
            /\ counter' = [counter EXCEPT ![t] = 0]
            /\ it' = [it EXCEPT ![t] = 1]
    /\ UNCHANGED <<m_devices_CL, arr, initialized, nextSerial, fatal, enqueued,
                   oob, calls, overlapped, buildLog, slotWrites>>
    /\ UNCHANGED kernelVars
    /\ UNCHANGED genVars

\* line 37 with deviceID outside the array: the store goes to whatever
\* lies behind arr.  Of what the model holds, it may change nothing, it may
\* land on the flag of initialize() (any nonzero byte makes it true), or it
\* may end the run.
StrayStoreOutcomes == {"unseen", "flag", "crash"}

\* line 40 with deviceID outside the array: the value read is whatever lies
\* behind arr, no kernel at all or bytes that are no kernel of the run.
StrayKernel == [device |-> -1, serial |-> -1]

LoadOutcomes(a, deviceID) ==
    IF deviceID < MaxKernels THEN {KernelsLoad(a, deviceID)} ELSE {NullKernel, StrayKernel}

\* lines 53-61: one iteration of the loop over the devices.  buildProgram
\* and clCreateKernel either give a new kernel object, which is stored at
\* ordinal counter (counter++), or fail, which CL_CHECK_ERROR reports and
\* which ends the run.
BuildDevice(t, ok) ==
    /\ ~fatal
    /\ pc[t] = "loop"
    /\ it[t] <= Len(m_devices_CL)
    /\ IF ok
       THEN LET kernel == [device |-> m_devices_CL[it[t]], serial |-> nextSerial]
            IN  /\ nextSerial' = nextSerial + 1
                /\ buildLog' = Append(buildLog, m_devices_CL[it[t]])
                /\ arr' = KernelsStore(arr, counter[t], kernel)
                /\ slotWrites' = IF counter[t] < MaxKernels
                                 THEN [slotWrites EXCEPT ![counter[t]] = @ + 1]
                                 ELSE slotWrites
                /\ oob' = (oob \/ counter[t] >= MaxKernels)
                /\ counter' = [counter EXCEPT ![t] = (@ + 1) % SizeMod]
                /\ it' = [it EXCEPT ![t] = @ + 1]
                /\ IF counter[t] < MaxKernels
                   THEN UNCHANGED <<fatal, initialized>>
                   ELSE \E outcome \in StrayStoreOutcomes :
                           /\ fatal' = (outcome = "crash")
                           /\ initialized' = (initialized \/ outcome = "flag")
       ELSE /\ fatal' = TRUE
            /\ UNCHANGED <<nextSerial, buildLog, arr, slotWrites, oob, counter, it,
                           initialized>>
    /\ UNCHANGED <<m_devices_CL, pc, enqueued, calls, overlapped>>
    /\ UNCHANGED kernelVars
    /\ UNCHANGED genVars

\* line 61: the range-for is exhausted.
EndLoop(t) ==
    /\ ~fatal
    /\ pc[t] = "loop"
    /\ it[t] > Len(m_devices_CL)
    /\ pc' = [pc EXCEPT ![t] = "set"]
    /\ UNCHANGED <<m_devices_CL, arr, initialized, counter, it, nextSerial,
                   fatal, enqueued, oob, calls, overlapped, buildLog, slotWrites>>
    /\ UNCHANGED kernelVars
    /\ UNCHANGED genVars

\* lines 63-64: the flag is set and initialize() returns.
SetInitialized(t) ==
    /\ ~fatal
    /\ pc[t] = "set"
    /\ initialized' = FlagAfterBuild
    /\ pc' = [pc EXCEPT ![t] = "idle"]
    /\ UNCHANGED <<m_devices_CL, arr, counter, it, nextSerial, fatal, enqueued,
                   oob, calls, overlapped, buildLog, slotWrites>>
    /\ UNCHANGED kernelVars
    /\ UNCHANGED genVars

\* lines 66-76: map() reads kernels(deviceID) for setKernelArgs, then
\* m_devices_CL.at(deviceID), which throws std::out_of_range for an ordinal
\* that is no device, then enqueues the kernel it reads again.
Map(t, deviceID) ==
    /\ ~fatal
    /\ pc[t] = "idle"
    /\ oob' = (oob \/ deviceID >= MaxKernels)
    /\ \E kernel \in LoadOutcomes(arr, deviceID) :
          enqueued' = IF deviceID < Len(m_devices_CL)
                      THEN <<deviceID, kernel>>
                      ELSE <<"out_of_range">>
    /\ UNCHANGED <<m_devices_CL, arr, initialized, pc, counter, it, nextSerial,
                   fatal, calls, overlapped, buildLog, slotWrites>>
    /\ UNCHANGED kernelVars
    /\ UNCHANGED genVars

NextHost ==
    \E t \in Threads :
        \/ CallInitialize(t)
        \/ TestInitialized(t)
        \/ \E ok \in BOOLEAN : BuildDevice(t, ok)
        \/ EndLoop(t)
        \/ SetInitialized(t)
        \/ \E deviceID \in 0 .. MaxDevices : Map(t, deviceID)

SpecHost == InitHost /\ [][NextHost]_vars

\* A machine with as many devices as the table has slots, or one more.
ManyDeviceLists ==
    {[k \in 1 .. d |-> 100 + k] : d \in {MaxKernels, MaxKernels + 1}}

InitHostMany ==
    /\ KernelIdle
    /\ m_devices_CL \in ManyDeviceLists
    /\ HostFresh
    /\ GenIdle

\* A single host thread on that machine (what goes wrong there needs no
\* second thread); map() is called for the ordinal of any of its devices.
NextHostMany ==
    \E t \in {1} :
        \/ CallInitialize(t)
        \/ TestInitialized(t)
        \/ \E ok \in BOOLEAN : BuildDevice(t, ok)
        \/ EndLoop(t)
        \/ SetInitialized(t)
        \/ \E deviceID \in 0 .. MaxKernels : Map(t, deviceID)

SpecHostMany == InitHostMany /\ [][NextHostMany]_vars

AllIdle == \A t \in Threads : pc[t] = "idle"

\* With calls made one after the other, the first call has returned once a
\* second call has been made or nobody is inside initialize().
FirstCallReturned == calls >= 2 \/ (calls >= 1 /\ AllIdle)

NumDevices == Len(m_devices_CL)

\* C2: as long as the calls of initialize() have not overlapped (and no
\* build error has ended the run), the devices are built in device-list order
\* and none twice, no slot of the table is written twice, and from the return
\* of the first call on, whatever the number of later calls: every device has
\* been built exactly once, ordinal k holds the kernel made by the k-th build,
\* which is the one for the k-th device, and the other slots are untouched.
InitializeIdempotentSequential ==
    (~overlapped /\ ~fatal) =>
        /\ Len(buildLog) <= NumDevices
        /\ \A k \in 1 .. Len(buildLog) : buildLog[k] = m_devices_CL[k]
        /\ \A k \in 0 .. (MaxKernels - 1) : slotWrites[k] <= 1
        /\ FirstCallReturned =>
              /\ initialized
              /\ buildLog = m_devices_CL
              /\ \A k \in 0 .. (MaxKernels - 1) :
                    IF k < NumDevices
                    THEN /\ arr[k] = [device |-> m_devices_CL[k + 1], serial |-> k + 1]
                         /\ slotWrites[k] = 1
                    ELSE /\ arr[k] = NullKernel
                         /\ slotWrites[k] = 0

\* Several calls made one after the other, all returned, with several devices.
InitializeIdempotentWitness ==
    /\ ~overlapped
    /\ ~fatal
    /\ calls = MaxCalls
    /\ AllIdle
    /\ NumDevices = MaxDevices
    /\ buildLog = m_devices_CL
    /\ arr[MaxDevices - 1].device = m_devices_CL[MaxDevices]

\* C3: whatever the interleaving of the host threads inside initialize(), no
\* device is built more than once and no slot of the table is written more
\* than once.
InitializeBuildGuarded ==
    /\ \A d \in 1 .. NumDevices :
          Cardinality({k \in 1 .. Len(buildLog) : buildLog[k] = m_devices_CL[d]}) <= 1
    /\ \A k \in 0 .. (MaxKernels - 1) : slotWrites[k] <= 1

\* C11: whatever the number of registered devices, no store of initialize()
\* and no load of map() uses an ordinal at or above the capacity of the
\* table.
TableIndexBelowCapacity == ~oob

(***************************************************************************)
(* createMapPairsKernelProgram_CL, mappairs_cl.cpp lines 81-249.           *)
(* Text is a sequence of tokens: every literal and every value the code    *)
(* streams with << is a token (long literals are cut at the places the     *)
(* claims look at), and a placeholder of a template is one token.          *)
(***************************************************************************)

RECURSIVE CatRange(_, _, _)
\* ss[lo] \o ... \o ss[hi]
CatRange(ss, lo, hi) ==
    IF lo > hi THEN << >>
    ELSE IF lo = hi THEN ss[lo]
    ELSE LET mid == (lo + hi) \div 2
         IN  CatRange(ss, lo, mid) \o CatRange(ss, mid + 1, hi)

\* The concatenation of a sequence of token sequences.
Cat(ss) == CatRange(ss, 1, Len(ss))

\* line 104 (118, 186): if (!first) { SSMapFuncParams << ", "; }
SeparatorAlways(first) == <<", ">>

Separator(first) == IF ~first THEN <<", ">> ELSE << >>

\* line 108: ctr++ < mapFunc.Varity, with ctr the value before the increment.
IsVerticalOffByOne(ctr, mapFunc) == ctr <= mapFunc.Varity

IsVertical(ctr, mapFunc) == ctr < mapFunc.Varity

\* lines 83-99: the streams and locals before the loops.
InitialStreams(mapFunc) ==
    [ SSMapFuncParams |->
          IF mapFunc.indexed1D THEN <<"index">>
          ELSE IF mapFunc.indexed2D THEN <<"index">> ELSE << >>,
      indexInitializer |->
          IF mapFunc.indexed1D
          THEN <<"index1_t index = { .i = base + i };">>
          ELSE IF mapFunc.indexed2D
          THEN <<"index2_t index = { .row = (base + i) / w, .col = (base + i) % w };">>
          ELSE << >>,
      first |-> ~(mapFunc.indexed1D \/ mapFunc.indexed2D),
      ctr |-> 0,
      SSKernelParamList |-> << >>,
      SSHostKernelParamList |-> << >>,
      SSKernelArgs |-> << >>,
      SSProxyInitializer |-> << >>,
      SSProxyInitializerInner |-> << >>,
      containerProxyTypes |-> {} ]

\* lines 104-112: the body of the loop over mapFunc.elwiseParams.
ElwiseBody(st, param, mapFunc) ==
    [st EXCEPT
        !.SSMapFuncParams =
            @ \o Separator(st.first)
              \o <<param.name,
                   IF IsVertical(st.ctr, mapFunc) THEN "[i / Hsize]" ELSE "[i % Hsize]">>,
        !.SSKernelParamList =
            @ \o <<"__global ", param.resolvedTypeName, " *", param.name, ", ">>,
        !.SSHostKernelParamList =
            @ \o <<"skepu::backend::DeviceMemPointer_CL<", param.resolvedTypeName,
                   "> *", param.name, ", ">>,
        !.SSKernelArgs = @ \o <<param.name, "->getDeviceDataPointer()", ", ">>,
        !.ctr = @ + 1,
        !.first = FALSE]

\* RandomAccessParam::TypeNameOpenCL() and TypeNameHost(): the proxy type and
\* the host tuple type of a container parameter, one token each side of the
\* element type.
TypeNameOpenCL(param) == <<"skepu_proxy_", param.containerType, "_", param.resolvedTypeName>>

TypeNameHost(param) == <<"skepu_host_tuple_", param.containerType, "<", param.resolvedTypeName, ">">>

\* "std::get<k>(skepu_container_<name>)" followed by an accessor.
Get(k, param, accessor) == <<k, "skepu_container_", param.name, accessor, ", ">>

\* "size_t <prefix><name>, "
SizeParam(prefix, param) == <<"size_t ", prefix, param.name, ", ">>

\* "__global <type> *skepu_container_<name>, "
DataParam(param) ==
    <<"__global ", param.resolvedTypeName, " *", "skepu_container_", param.name, ", ">>

\* ", .<field> = <prefix><name>" inside a proxy initializer.
FieldInit(field, prefix, param) == <<field, prefix, param.name>>

\* "<proxy type> <name> = { .data = <data>"
ProxyHead(param, data) ==
    TypeNameOpenCL(param) \o <<" ", param.name, " = { ", ".data = ">> \o data

\* A case of the switch appends to the kernel parameter list, to the
\* setKernelArgs arguments and to one of the two proxy-initializer streams.
Emit(st, params, args, outer, inner) ==
    [st EXCEPT !.SSKernelParamList = @ \o params,
               !.SSKernelArgs = @ \o args,
               !.SSProxyInitializer = @ \o outer,
               !.SSProxyInitializerInner = @ \o inner]

\* lines 123-127: case ContainerType::Vector
CaseVector(st, param) ==
    Emit(st,
         DataParam(param) \o SizeParam("skepu_size_", param),
         Get("std::get<1>(", param, ")->getDeviceDataPointer()")
            \o Get("std::get<0>(", param, ")->size()"),
         ProxyHead(param, <<"skepu_container_", param.name>>)
            \o FieldInit(", .size = ", "skepu_size_", param) \o <<" };\n">>,
         << >>)

MatrixArgsSwapped(param) ==
    Get("std::get<1>(", param, ")->getDeviceDataPointer()")
        \o Get("std::get<0>(", param, ")->total_cols()")
        \o Get("std::get<0>(", param, ")->total_rows()")

\* line 131: the setKernelArgs arguments of a Matrix.
MatrixArgs(param) ==
    Get("std::get<1>(", param, ")->getDeviceDataPointer()")
        \o Get("std::get<0>(", param, ")->total_rows()")
        \o Get("std::get<0>(", param, ")->total_cols()")

\* lines 129-134: case ContainerType::Matrix
CaseMatrix(st, param) ==
    Emit(st,
         DataParam(param) \o SizeParam("skepu_rows_", param)
            \o SizeParam("skepu_cols_", param),
         MatrixArgs(param),
         ProxyHead(param, <<"skepu_container_", param.name>>)
            \o FieldInit(", .rows = ", "skepu_rows_", param)
            \o FieldInit(", .cols = ", "skepu_cols_", param) \o <<" };\n">>,
         << >>)

\* line 139: the proxy initializer of a MatRow.
MatRowInitializer(param) ==
    ProxyHead(param, <<"(", "skepu_container_", param.name, " + i * ",
                       "skepu_cols_", param.name, ")">>)
        \o FieldInit(", .cols = ", "skepu_cols_", param) \o <<" };\n">>

CaseMatRowHoisted(st, param) ==
    Emit(st,
         DataParam(param) \o SizeParam("skepu_cols_", param),
         Get("std::get<1>(", param, ")->getDeviceDataPointer()")
            \o Get("std::get<0>(", param, ")->total_cols()"),
         MatRowInitializer(param),
         << >>)

\* lines 136-140: case ContainerType::MatRow
CaseMatRow(st, param) ==
    Emit(st,
         DataParam(param) \o SizeParam("skepu_cols_", param),
         Get("std::get<1>(", param, ")->getDeviceDataPointer()")
            \o Get("std::get<0>(", param, ")->total_cols()"),
         << >>,
         MatRowInitializer(param))

\* lines 142-149: case ContainerType::Tensor3
CaseTensor3(st, param) ==
    Emit(st,
         DataParam(param) \o SizeParam("skepu_size_i_", param)
            \o SizeParam("skepu_size_j_", param) \o SizeParam("skepu_size_k_", param),
         Get("std::get<1>(", param, ")->getDeviceDataPointer()")
            \o Get("std::get<0>(", param, ")->size_i()")
            \o Get("std::get<0>(", param, ")->size_j()")
            \o Get("std::get<0>(", param, ")->size_k()"),
         ProxyHead(param, <<"skepu_container_", param.name>>)
            \o FieldInit(", .size_i = ", "skepu_size_i_", param)
            \o FieldInit(", .size_j = ", "skepu_size_j_", param)
            \o FieldInit(", .size_k = ", "skepu_size_k_", param) \o <<" };\n">>,
         << >>)

\* lines 151-158: case ContainerType::Tensor4
CaseTensor4(st, param) ==
    Emit(st,
         DataParam(param) \o SizeParam("skepu_size_i_", param)
            \o SizeParam("skepu_size_j_", param) \o SizeParam("skepu_size_k_", param)
            \o SizeParam("skepu_size_l_", param),
         Get("std::get<1>(", param, ")->getDeviceDataPointer()")
            \o Get("std::get<0>(", param, ")->size_i()")
            \o Get("std::get<0>(", param, ")->size_j()")
            \o Get("std::get<0>(", param, ")->size_k()")
            \o Get("std::get<0>(", param, ")->size_l()"),
         ProxyHead(param, <<"skepu_container_", param.name>>)
            \o FieldInit(", .size_i = ", "skepu_size_i_", param)
            \o FieldInit(", .size_j = ", "skepu_size_j_", param)
            \o FieldInit(", .size_k = ", "skepu_size_k_", param)
            \o FieldInit(", .size_l = ", "skepu_size_l_", param) \o <<" };\n">>,
         << >>)

\* lines 160-178: case ContainerType::SparseMatrix
CaseSparseMatrix(st, param) ==
    Emit(st,
         DataParam(param)
            \o <<"__global size_t *", param.name, "_row_pointers", ", ">>
            \o <<"__global size_t *", param.name, "_col_indices", ", ">>
            \o SizeParam("skepu_size_", param),
         Get("std::get<1>(", param, ")->getDeviceDataPointer()")
            \o Get("std::get<2>(", param, ")->getDeviceDataPointer()")
            \o Get("std::get<3>(", param, ")->getDeviceDataPointer()")
            \o Get("std::get<0>(", param, ")->total_nnz()"),
         ProxyHead(param, <<"skepu_container_", param.name>>)
            \o <<", .row_offsets = ", param.name, "_row_pointers">>
            \o <<", .col_indices = ", param.name, "_col_indices">>
            \o FieldInit(", .count = ", "skepu_size_", param) \o <<" };\n">>,
         << >>)

\* lines 117-181: the body of the loop over mapFunc.anyContainerParams.  The
\* switch has no default label: a kind without a case appends nothing.
ContainerBody(st, param) ==
    LET common ==
            [st EXCEPT
                !.SSMapFuncParams = @ \o Separator(st.first) \o <<param.name>>,
                !.SSHostKernelParamList =
                    @ \o TypeNameHost(param) \o <<" skepu_container_", param.name, ", ">>,
                !.containerProxyTypes =
                    @ \cup {<<param.containerType, param.resolvedTypeName>>},
                !.first = FALSE]
    IN  CASE param.containerType = "Vector" -> CaseVector(common, param)
          [] param.containerType = "Matrix" -> CaseMatrix(common, param)
          [] param.containerType = "MatRow" -> CaseMatRow(common, param)
          [] param.containerType = "Tensor3" -> CaseTensor3(common, param)
          [] param.containerType = "Tensor4" -> CaseTensor4(common, param)
          [] param.containerType = "SparseMatrix" -> CaseSparseMatrix(common, param)
          [] OTHER -> common

\* lines 186-191: the body of the loop over mapFunc.anyScalarParams.
ScalarBody(st, param) ==
    [st EXCEPT
        !.SSMapFuncParams = @ \o Separator(st.first) \o <<param.name>>,
        !.SSKernelParamList = @ \o <<param.resolvedTypeName, " ", param.name, ", ">>,
        !.SSHostKernelParamList = @ \o <<param.resolvedTypeName, " ", param.name, ", ">>,
        !.SSKernelArgs = @ \o <<param.name, ", ">>,
        !.first = FALSE]

RECURSIVE ElwiseLoop(_, _, _)
\* lines 101-113
ElwiseLoop(st, params, mapFunc) ==
    IF params = << >> THEN st
    ELSE ElwiseLoop(ElwiseBody(st, Head(params), mapFunc), Tail(params), mapFunc)

RECURSIVE ContainerLoop(_, _)
\* lines 115-182
ContainerLoop(st, params) ==
    IF params = << >> THEN st
    ELSE ContainerLoop(ContainerBody(st, Head(params)), Tail(params))

RECURSIVE ScalarLoop(_, _)
\* lines 184-192
ScalarLoop(st, params) ==
    IF params = << >> THEN st
    ELSE ScalarLoop(ScalarBody(st, Head(params)), Tail(params))

\* lines 83-192: the streams when the three loops are done.
Streams(mapFunc) ==
    ScalarLoop(
        ContainerLoop(
            ElwiseLoop(InitialStreams(mapFunc), mapFunc.elwiseParams, mapFunc),
            mapFunc.anyContainerParams),
        mapFunc.anyScalarParams)

(***************************************************************************)
(* The templates, lines 9-24 and 27-78.                                    *)
(***************************************************************************)

\* line 10: the kernel's parameter list, between the parentheses.
KernelSignature ==
    <<"SKEPU_KERNEL_PARAMS", "__global ", "SKEPU_MAP_RESULT_TYPE", "* ", "output", ", ",
      "size_t ", "w", ", ", "size_t ", "n", ", ", "size_t ", "Vsize", ", ",
      "size_t ", "Hsize", ", ", "size_t ", "base">>

\* lines 9-24
MapPairsKernelTemplate_CL ==
    <<"__kernel void ", "SKEPU_KERNEL_NAME", "(">> \o KernelSignature \o
    <<")", "{",
      "size_t i = get_global_id(0);",
      "size_t gridSize = get_local_size(0) * get_num_groups(0);",
      "SKEPU_CONTAINER_PROXIES",
      "while (i < n)", "{",
      "SKEPU_INDEX_INITIALIZER",
      "SKEPU_CONTAINER_PROXIE_INNER",
      "output[i] = ", "SKEPU_FUNCTION_NAME_MAP", "(", "SKEPU_MAP_PARAMS", ");",
      "i += gridSize;",
      "}", "}">>

\* line 73: the arguments map() gives setKernelArgs after kernels(deviceID).
SetKernelArgsList ==
    <<"SKEPU_KERNEL_ARGS", "output", "->getDeviceDataPointer()", ", ",
      "w", ", ", "n", ", ", "Vsize", ", ", "Hsize", ", ", "base">>

\* lines 27-78
Constructor ==
    <<"class ", "SKEPU_KERNEL_CLASS", "{", "public:",
      "static cl_kernel kernels(size_t deviceID, cl_kernel *newkernel = nullptr) {...}",
      "static void initialize()", "{",
      "static bool initialized = false; if (initialized) return;",
      "std::string source = skepu::backend::cl_helpers::replaceSizeT(R\"###(",
      "SKEPU_OPENCL_KERNEL", ")###\");",
      "size_t counter = 0; for (... device : ...m_devices_CL) { ... clCreateKernel(program, \"",
      "SKEPU_KERNEL_NAME", "\", &err);",
      "CL_CHECK_ERROR(err, \"Error creating mappairs kernel '", "SKEPU_KERNEL_NAME", "'\");",
      "kernels(counter++, &kernel); } initialized = true;", "}",
      "static void map(size_t deviceID, size_t localSize, size_t globalSize, ",
      "SKEPU_HOST_KERNEL_PARAMS", "skepu::backend::DeviceMemPointer_CL<",
      "SKEPU_MAP_RESULT_TYPE", "> *output, ",
      "size_t w, size_t n, size_t Vsize, size_t Hsize, size_t base)", "{",
      "skepu::backend::cl_helpers::setKernelArgs(kernels(deviceID), ">>
    \o SetKernelArgsList \o
    <<");",
      "cl_int err = clEnqueueNDRangeKernel(...); CL_CHECK_ERROR(err, \"Error launching Map kernel\");",
      "}", "};">>

\* The placeholder tokens of the two templates.
Placeholders ==
    {"SKEPU_OPENCL_KERNEL", "SKEPU_MAP_RESULT_TYPE", "SKEPU_KERNEL_NAME",
     "SKEPU_FUNCTION_NAME_MAP", "SKEPU_KERNEL_PARAMS", "SKEPU_HOST_KERNEL_PARAMS",
     "SKEPU_MAP_PARAMS", "SKEPU_INDEX_INITIALIZER", "SKEPU_KERNEL_CLASS",
     "SKEPU_KERNEL_ARGS", "SKEPU_CONTAINER_PROXIES", "SKEPU_CONTAINER_PROXIE_INNER"}

(***************************************************************************)
(* Lines 194-249: the kernel source, the names, the substitutions.         *)
(***************************************************************************)

\* The element types the model uses, in the order std::set<std::string>
\* iterates them.
TypePool == <<"double", "float", "int">>

\* lines 197-213: one proxy definition per kind and element type, the kinds
\* in the order of the six loops, the types in set order.
ProxyKindOrder ==
    <<"Vector", "Matrix", "SparseMatrix", "MatRow", "Tensor3", "Tensor4">>

ProxyDefinitions(containerProxyTypes) ==
    Cat([k \in 1 .. Len(ProxyKindOrder) |->
          Cat([t \in 1 .. Len(TypePool) |->
                IF <<ProxyKindOrder[k], TypePool[t]>> \in containerProxyTypes
                THEN <<"generateOpenCLProxy(", ProxyKindOrder[k], TypePool[t], ")">>
                ELSE << >>])])

\* line 229: generateUserFunctionCode_CL(mapFunc), the user function as
\* OpenCL code: its name and its body text.
GenerateUserFunctionCode_CL(mapFunc) ==
    <<"static ", mapFunc.resolvedReturnTypeName, " ", mapFunc.uniqueName, "(...)", "{",
      mapFunc.code, "}">>

\* lines 194-222 and 229: sourceStream.  No user constant and no user type
\* is registered in the model.
SourceStream(mapFunc, st) ==
    (IF mapFunc.requiresDoublePrecision
     THEN <<"#pragma OPENCL EXTENSION cl_khr_fp64: enable\n">> ELSE << >>)
    \o ProxyDefinitions(st.containerProxyTypes)
    \o <<"KernelPredefinedTypes_CL">>
    \o GenerateUserFunctionCode_CL(mapFunc)
    \o MapPairsKernelTemplate_CL

Digit == <<"0", "1", "2", "3", "4", "5", "6", "7", "8", "9">>

RECURSIVE Decimal(_)
\* operator<< of a size_t: the decimal digits, no sign, no padding.
Decimal(k) == IF k < 10 THEN Digit[k + 1] ELSE Decimal(k \div 10) \o Digit[(k % 10) + 1]

IdentifierChars ==
    {"a", "b", "c", "p", "g", "r", "o", "x", "_", "0", "1", "2"}

RECURSIVE transformToCXXIdentifier(_)
\* transformToCXXIdentifier: every character that cannot be part of an
\* identifier becomes '_'.  The argument is a sequence of characters, the
\* result a string.
transformToCXXIdentifier(chars) ==
    IF chars = << >> THEN ""
    ELSE (IF Head(chars) \in IdentifierChars THEN Head(chars) ELSE "_")
         \o transformToCXXIdentifier(Tail(chars))

KernelNameNoHaritySeparator(resultName, mapFunc, Varity, Harity) ==
    transformToCXXIdentifier(resultName) \o "_MapPairsKernel_" \o mapFunc.uniqueName
        \o "_Varity_" \o Decimal(Varity) \o Decimal(Harity)

\* lines 224-226: kernelName
KernelName(resultName, mapFunc, Varity, Harity) ==
    transformToCXXIdentifier(resultName) \o "_MapPairsKernel_" \o mapFunc.uniqueName
        \o "_Varity_" \o Decimal(Varity) \o "_Harity_" \o Decimal(Harity)

RECURSIVE replaceTextInString(_, _, _)
\* replaceTextInString(text, find, replace): the first occurrence of find
\* becomes replace and the search goes on behind what was put in, until
\* find occurs no more.
replaceTextInString(text, find, replace) ==
    LET occurrences == {k \in 1 .. Len(text) : text[k] = find}
    IN  IF occurrences = {} THEN text
        ELSE LET pos == CHOOSE k \in occurrences : \A j \in occurrences : k <= j
             IN  SubSeq(text, 1, pos - 1) \o replace
                   \o replaceTextInString(SubSeq(text, pos + 1, Len(text)), find, replace)

\* lines 232-243: the substitutions, in the order they are made.
Substitutions(mapFunc, st, kernelName) ==
    << <<"SKEPU_OPENCL_KERNEL", SourceStream(mapFunc, st)>>,
       <<"SKEPU_MAP_RESULT_TYPE", <<mapFunc.resolvedReturnTypeName>> >>,
       <<"SKEPU_KERNEL_NAME", <<kernelName>> >>,
       <<"SKEPU_FUNCTION_NAME_MAP", <<mapFunc.uniqueName>> >>,
       <<"SKEPU_KERNEL_PARAMS", st.SSKernelParamList>>,
       <<"SKEPU_HOST_KERNEL_PARAMS", st.SSHostKernelParamList>>,
       <<"SKEPU_MAP_PARAMS", st.SSMapFuncParams>>,
       <<"SKEPU_INDEX_INITIALIZER", st.indexInitializer>>,
       <<"SKEPU_KERNEL_CLASS", <<"CLWrapperClass_" \o kernelName>> >>,
       <<"SKEPU_KERNEL_ARGS", st.SSKernelArgs>>,
       <<"SKEPU_CONTAINER_PROXIES", st.SSProxyInitializer>>,
       <<"SKEPU_CONTAINER_PROXIE_INNER", st.SSProxyInitializerInner>> >>

RECURSIVE ReplaceAll(_, _)
\* lines 231-243: finalSource after the substitutions subs, first to last.
ReplaceAll(text, subs) ==
    IF subs = << >> THEN text
    ELSE ReplaceAll(replaceTextInString(text, Head(subs)[1], Head(subs)[2]), Tail(subs))

\* lines 231-243: finalSource
FinalSource(mapFunc, st, kernelName) ==
    ReplaceAll(Constructor, Substitutions(mapFunc, st, kernelName))

(***************************************************************************)
(* The calls of createMapPairsKernelProgram_CL.                            *)
(***************************************************************************)

\* lines 245-246: std::ofstream FSOutFile {dir + "/" + kernelName +
\* "_cl_source.inl"}; FSOutFile << finalSource;  A file of that name is
\* replaced.
WriteFile(files, kernelName, content) ==
    {f \in files : f[1] # kernelName} \cup {<<kernelName, content>>}

\* lines 81-249: one call; it returns kernelName.
Generate(f, V, H) ==
    LET st == Streams(f)
        kernelName == KernelName(ResultName, f, V, H)
        source == FinalSource(f, st, kernelName)
    IN  /\ argMapFunc' = f
        /\ argVarity' = V
        /\ argHarity' = H
        /\ streams' = st
        /\ finalSource' = source
        /\ outFiles' = WriteFile(outFiles, kernelName, source)
        /\ generated' = Append(generated,
                               [uniqueName |-> f.uniqueName, Varity |-> V,
                                Harity |-> H, kernelName |-> kernelName])
        /\ UNCHANGED ResultName
        /\ UNCHANGED kernelVars
        /\ UNCHANGED hostVars

\* The -name option of a run.
ResultNames == {<<"p", "r", "o", "g">>, <<"a", "-", "b", ".", "c">>}

ElwiseNames == <<"a", "b", "c", "d", "e", "g", "h", "k">>
ContainerNames == <<"p", "q", "r", "s">>
ScalarNames == <<"x", "y", "z", "u">>

TypeAt(k) == TypePool[(k % Len(TypePool)) + 1]

\* ContainerType; "Other" stands for a value without a case in the switch.
ContainerTypes ==
    {"Vector", "Matrix", "MatRow", "Tensor3", "Tensor4", "SparseMatrix", "Other"}

ContainerKindLists == UNION {[1 .. c -> ContainerTypes] : c \in 0 .. MaxContainers}

\* A UserFunction as the front end hands it over for MapPairs<v, h>: v + h
\* elementwise parameters, then the containers of the given kinds, then sc
\* scalars; all parameter names distinct, as in any C++ function.
UserFunction(v, h, kinds, sc, indexing) ==
    LET elwise == [k \in 1 .. (v + h) |->
                      [name |-> ElwiseNames[k], resolvedTypeName |-> TypeAt(k)]]
        containers == [k \in 1 .. Len(kinds) |->
                      [name |-> ContainerNames[k], resolvedTypeName |-> TypeAt(k + 1),
                       containerType |-> kinds[k]]]
        scalars == [k \in 1 .. sc |->
                      [name |-> ScalarNames[k], resolvedTypeName |-> TypeAt(k + 2)]]
    IN  [ uniqueName |-> "f",
          resolvedReturnTypeName |-> "float",
          indexed1D |-> (indexing = "1D"),
          indexed2D |-> (indexing = "2D"),
          Varity |-> v,
          Harity |-> h,
          requiresDoublePrecision |->
              (\E k \in 1 .. (v + h) : elwise[k].resolvedTypeName = "double")
              \/ (\E k \in 1 .. Len(kinds) : containers[k].resolvedTypeName = "double")
              \/ (\E k \in 1 .. sc : scalars[k].resolvedTypeName = "double"),
          elwiseParams |-> elwise,
          anyContainerParams |-> containers,
          anyScalarParams |-> scalars,
          code |-> "return 0;" ]

OrdinaryFunctions ==
    {UserFunction(v, h, kinds, sc, indexing) :
        v \in 0 .. MaxVarity, h \in 0 .. MaxHarity, kinds \in ContainerKindLists,
        sc \in 0 .. MaxScalars, indexing \in {"none", "1D", "2D"}}

\* The same function with one identifier, type name or the body text spelt
\* like a placeholder of the templates (all of them are valid C identifiers).
RenameFirst(params, token) ==
    [k \in 1 .. Len(params) |->
        IF k = 1 THEN [params[k] EXCEPT !.name = token] ELSE params[k]]

RetypeFirst(params, token) ==
    [k \in 1 .. Len(params) |->
        IF k = 1 THEN [params[k] EXCEPT !.resolvedTypeName = token] ELSE params[k]]

Respelt(f, what, token) ==
    CASE what = "elwise" -> [f EXCEPT !.elwiseParams = RenameFirst(@, token)]
      [] what = "elwiseType" -> [f EXCEPT !.elwiseParams = RetypeFirst(@, token)]
      [] what = "container" -> [f EXCEPT !.anyContainerParams = RenameFirst(@, token)]
      [] what = "scalar" -> [f EXCEPT !.anyScalarParams = RenameFirst(@, token)]
      [] what = "returnType" -> [f EXCEPT !.resolvedReturnTypeName = token]
      [] what = "uniqueName" -> [f EXCEPT !.uniqueName = token]
      [] what = "code" -> [f EXCEPT !.code = token]

RespeltFunctions ==
    {Respelt(UserFunction(1, 1, <<kind>>, 1, indexing), what, token) :
        kind \in {"Vector", "MatRow"}, indexing \in {"none", "1D"},
        what \in {"elwise", "elwiseType", "container", "scalar", "returnType",
                  "uniqueName", "code"},
        token \in Placeholders}

UserFunctions == OrdinaryFunctions \cup RespeltFunctions

\* A run with a -name that transformToCXXIdentifier has to rewrite.
InitGen ==
    /\ KernelIdle
    /\ HostIdle
    /\ ResultName = <<"a", "-", "b", ".", "c">>
    /\ GenFresh

\* The precompiler generates the artifact of a MapPairs instance; the caller
\* passes the arities it has stored in the UserFunction.
GenerateArtifact ==
    /\ generated = << >>
    /\ \E f \in UserFunctions : Generate(f, f.Varity, f.Harity)

SpecGen == InitGen /\ [][GenerateArtifact]_vars

(***************************************************************************)
(* Properties of the generated text.                                       *)
(***************************************************************************)

GenDone == generated # << >>

RECURSIVE SplitAt(_, _)
\* The pieces of a token sequence between the occurrences of token sep.
SplitAt(tokens, sep) ==
    LET occurrences == {k \in 1 .. Len(tokens) : tokens[k] = sep}
    IN  IF occurrences = {} THEN <<tokens>>
        ELSE LET pos == CHOOSE k \in occurrences : \A j \in occurrences : k <= j
             IN  <<SubSeq(tokens, 1, pos - 1)>>
                   \o SplitAt(SubSeq(tokens, pos + 1, Len(tokens)), sep)

RECURSIVE Text(_)
\* The characters a token sequence stands for.
Text(tokens) == IF tokens = << >> THEN "" ELSE Head(tokens) \o Text(Tail(tokens))

Names(params) == [k \in 1 .. Len(params) |-> params[k].name]

Indexed(f) == f.indexed1D \/ f.indexed2D

\* The declared order of the arguments of the user function.
DeclaredArguments(f) ==
    (IF Indexed(f) THEN <<"index">> ELSE << >>)
        \o Names(f.elwiseParams) \o Names(f.anyContainerParams) \o Names(f.anyScalarParams)

\* The argument list the call put into the slot of the user-function call.
CallArguments == SplitAt(streams.SSMapFuncParams, ", ")

VerticalThenHorizontal ==
    GenDone =>
        LET first == IF Indexed(argMapFunc) THEN 1 ELSE 0
        IN  /\ \A k \in 1 .. Len(argMapFunc.elwiseParams) :
                  /\ first + k <= Len(CallArguments)
                  /\ CallArguments[first + k] =
                        <<argMapFunc.elwiseParams[k].name,
                          IF k <= argVarity THEN "[i / Hsize]" ELSE "[i % Hsize]">>
            /\ ( /\ ~Indexed(argMapFunc)
                 /\ argVarity = 1
                 /\ Names(argMapFunc.elwiseParams) = <<"a", "b">>
                 /\ argMapFunc.anyContainerParams = << >>
                 /\ argMapFunc.anyScalarParams = << >> )
               => Text(streams.SSMapFuncParams) = "a[i / Hsize], b[i % Hsize]"

\* The pairwise vector map of the scenario has been generated.
VerticalThenHorizontalWitness ==
    /\ GenDone
    /\ ~Indexed(argMapFunc)
    /\ argVarity = 1
    /\ argHarity = 1
    /\ Names(argMapFunc.elwiseParams) = <<"a", "b">>
    /\ argMapFunc.anyContainerParams = << >>
    /\ argMapFunc.anyScalarParams = << >>
    /\ Text(streams.SSMapFuncParams) = "a[i / Hsize], b[i % Hsize]"

\* C6: once the substitutions are made, the generated text holds no
\* placeholder token of the templates.
NoPlaceholderLeft ==
    GenDone => \A k \in 1 .. Len(finalSource) : finalSource[k] \notin Placeholders

\* The kinds the switch of lines 121-179 has a case for.
HandledKinds == {ProxyKindOrder[k] : k \in 1 .. Len(ProxyKindOrder)}

\* A slot of the template that the metadata gives no value: the index
\* initializer of a function without index, the proxy of a container whose
\* kind has no case.
SlotWithoutValue(f) ==
    \/ ~Indexed(f)
    \/ \E k \in 1 .. Len(f.anyContainerParams) :
          f.anyContainerParams[k].containerType \notin HandledKinds

\* C7: a call for a function with a slot without value fails and writes no
\* file.
MissingValueFailsGeneration ==
    (GenDone /\ SlotWithoutValue(argMapFunc)) => outFiles = {}

(***************************************************************************)
(* C8: the kernel's parameters against the arguments of setKernelArgs.     *)
(***************************************************************************)

\* What a "size_t <prefix><name>" parameter of the kernel carries.
PrefixField(prefix) ==
    CASE prefix = "skepu_size_" -> "size"
      [] prefix = "skepu_rows_" -> "rows"
      [] prefix = "skepu_cols_" -> "cols"
      [] prefix = "skepu_size_i_" -> "size_i"
      [] prefix = "skepu_size_j_" -> "size_j"
      [] prefix = "skepu_size_k_" -> "size_k"
      [] prefix = "skepu_size_l_" -> "size_l"
      [] OTHER -> "?"

\* The parameter and the field of it that a declared kernel parameter is.
KernelParameterField(p) ==
    CASE Len(p) = 5 /\ p[1] = "__global " /\ p[4] = "skepu_container_" -> <<p[5], "data">>
      [] Len(p) = 4 /\ p[1] = "__global " -> <<p[4], "data">>
      [] Len(p) = 3 /\ p[1] = "__global size_t *" /\ p[3] = "_row_pointers" ->
            <<p[2], "row_offsets">>
      [] Len(p) = 3 /\ p[1] = "__global size_t *" /\ p[3] = "_col_indices" ->
            <<p[2], "col_indices">>
      [] Len(p) = 3 /\ p[1] = "size_t " -> <<p[3], PrefixField(p[2])>>
      [] Len(p) = 3 /\ p[1] # "size_t " /\ p[2] = " " -> <<p[3], "value">>
      [] Len(p) = 2 /\ p[1] = "size_t " -> <<p[2], "value">>
      [] OTHER -> <<"?", "?">>

\* What std::get<k>(tuple)<accessor> of a container's host tuple carries:
\* element 0 is the container, 1 its device data, 2 and 3 the row offsets
\* and the column indices of a sparse matrix.
AccessorField(get, accessor) ==
    CASE get = "std::get<1>(" /\ accessor = ")->getDeviceDataPointer()" -> "data"
      [] get = "std::get<2>(" /\ accessor = ")->getDeviceDataPointer()" -> "row_offsets"
      [] get = "std::get<3>(" /\ accessor = ")->getDeviceDataPointer()" -> "col_indices"
      [] get = "std::get<0>(" /\ accessor = ")->size()" -> "size"
      [] get = "std::get<0>(" /\ accessor = ")->total_nnz()" -> "size"
      [] get = "std::get<0>(" /\ accessor = ")->total_rows()" -> "rows"
      [] get = "std::get<0>(" /\ accessor = ")->total_cols()" -> "cols"
      [] get = "std::get<0>(" /\ accessor = ")->size_i()" -> "size_i"
      [] get = "std::get<0>(" /\ accessor = ")->size_j()" -> "size_j"
      [] get = "std::get<0>(" /\ accessor = ")->size_k()" -> "size_k"
      [] get = "std::get<0>(" /\ accessor = ")->size_l()" -> "size_l"
      [] OTHER -> "?"

\* The parameter and the field of it that an argument of setKernelArgs is.
ArgumentField(a) ==
    CASE Len(a) = 4 /\ a[2] = "skepu_container_" -> <<a[3], AccessorField(a[1], a[4])>>
      [] Len(a) = 2 /\ a[2] = "->getDeviceDataPointer()" -> <<a[1], "data">>
      [] Len(a) = 1 -> <<a[1], "value">>
      [] OTHER -> <<"?", "?">>

\* The fields of a container of each kind, in order (size stands for the
\* element count, which for a sparse matrix is the count of nonzeros).
KindFields(kind) ==
    CASE kind = "Vector" -> <<"data", "size">>
      [] kind = "Matrix" -> <<"data", "rows", "cols">>
      [] kind = "MatRow" -> <<"data", "cols">>
      [] kind = "Tensor3" -> <<"data", "size_i", "size_j", "size_k">>
      [] kind = "Tensor4" -> <<"data", "size_i", "size_j", "size_k", "size_l">>
      [] kind = "SparseMatrix" -> <<"data", "row_offsets", "col_indices", "size">>
      [] OTHER -> << >>

\* What a call of the kernel for f has to pass, in order.
ExpectedBinding(f) ==
    [k \in 1 .. Len(f.elwiseParams) |-> <<f.elwiseParams[k].name, "data">>]
    \o Cat([k \in 1 .. Len(f.anyContainerParams) |->
              LET c == f.anyContainerParams[k]
                  fields == KindFields(c.containerType)
              IN  [j \in 1 .. Len(fields) |-> <<c.name, fields[j]>>]])
    \o [k \in 1 .. Len(f.anyScalarParams) |-> <<f.anyScalarParams[k].name, "value">>]
    \o << <<"output", "data">>, <<"w", "value">>, <<"n", "value">>,
          <<"Vsize", "value">>, <<"Hsize", "value">>, <<"base", "value">> >>

\* The declared parameters of the kernel: line 10 with the parameter list
\* of the call in its slot.
DeclaredKernelParameters ==
    SplitAt(replaceTextInString(KernelSignature, "SKEPU_KERNEL_PARAMS",
                                streams.SSKernelParamList), ", ")

\* The arguments map() binds: line 73 with the argument list of the call in
\* its slot.
BoundArguments ==
    SplitAt(replaceTextInString(SetKernelArgsList, "SKEPU_KERNEL_ARGS",
                                streams.SSKernelArgs), ", ")

\* C8: the kernel declares, and setKernelArgs binds, in this order: the data
\* of every elementwise parameter, the fields of every container in the order
\* of its kind, every scalar, then output, w, n, Vsize, Hsize, base; so the
\* k-th bound argument is the k-th declared parameter.
ArgumentsMirrorParameters ==
    GenDone =>
        LET expected == ExpectedBinding(argMapFunc)
            declared == DeclaredKernelParameters
            bound == BoundArguments
        IN  /\ Len(declared) = Len(expected)
            /\ Len(bound) = Len(expected)
            /\ \A k \in 1 .. Len(expected) :
                  /\ KernelParameterField(declared[k]) = expected[k]
                  /\ ArgumentField(bound[k]) = expected[k]

\* A function with a matrix and a sparse matrix among its parameters.
ArgumentsMirrorWitness ==
    /\ GenDone
    /\ Len(argMapFunc.elwiseParams) >= 1
    /\ Len(argMapFunc.anyScalarParams) >= 1
    /\ Len(argMapFunc.anyContainerParams) = 2
    /\ argMapFunc.anyContainerParams[1].containerType = "Matrix"
    /\ argMapFunc.anyContainerParams[2].containerType = "SparseMatrix"
    /\ Len(BoundArguments) = Len(argMapFunc.elwiseParams) + 3 + 4
                               + Len(argMapFunc.anyScalarParams) + 6
    /\ ArgumentField(BoundArguments[Len(argMapFunc.elwiseParams) + 2])
          = <<argMapFunc.anyContainerParams[1].name, "rows">>

(***************************************************************************)
(* C9: where the proxy initializers land.                                  *)
(***************************************************************************)

\* The positions of the token sequence sub in text.
Positions(sub, text) ==
    {k \in 1 .. (Len(text) + 1 - Len(sub)) :
        text[k] = sub[1] /\ SubSeq(text, k, k + Len(sub) - 1) = sub}

\* The loop of a text: from its "while (i < n)" to the first closing brace
\* after it (the body of the loop holds no block of its own).
LoopHead(text) == CHOOSE k \in 1 .. Len(text) : text[k] = "while (i < n)"

LoopClose(text) ==
    CHOOSE k \in (LoopHead(text) + 1) .. Len(text) :
        /\ text[k] = "}"
        /\ \A j \in (LoopHead(text) + 1) .. (k - 1) : text[j] # "}"

InsideLoop(text, k) == LoopHead(text) + 1 < k /\ k < LoopClose(text)

\* After the computation of gridSize and before the loop.
BeforeLoop(text, k) ==
    /\ k < LoopHead(text)
    /\ \E j \in 1 .. (k - 1) :
          text[j] = "size_t gridSize = get_local_size(0) * get_num_groups(0);"

\* The substitutions of the last call.
LastSubstitutions ==
    Substitutions(argMapFunc, streams, generated[Len(generated)].kernelName)

\* The text the substitutions subs bind to a placeholder.
SlotValue(subs, slot) ==
    LET k == CHOOSE j \in 1 .. Len(subs) : subs[j][1] = slot
    IN  subs[k][2]

\* Where a placeholder stands in the kernel template.
SlotAt(slot) ==
    CHOOSE k \in 1 .. Len(MapPairsKernelTemplate_CL) : MapPairsKernelTemplate_CL[k] = slot

\* How the proxy initializer of a container begins.
InitializerHead(param) == ProxyHead(param, << >>)

\* No identifier, type name or body of f is spelt like a placeholder.
PlainlySpelt(f) ==
    /\ \A k \in 1 .. Len(f.elwiseParams) :
          /\ f.elwiseParams[k].name \notin Placeholders
          /\ f.elwiseParams[k].resolvedTypeName \notin Placeholders
    /\ \A k \in 1 .. Len(f.anyContainerParams) :
          f.anyContainerParams[k].name \notin Placeholders
    /\ \A k \in 1 .. Len(f.anyScalarParams) :
          f.anyScalarParams[k].name \notin Placeholders
    /\ f.resolvedReturnTypeName \notin Placeholders
    /\ f.uniqueName \notin Placeholders
    /\ f.code \notin Placeholders

\* C9: the proxy initializer of a MatRow container goes to the slot inside
\* the loop body and to no other, that of a container of any other handled
\* kind to the slot before the loop and to no other; and in the text of a
\* plainly spelt function each initializer stands once, a MatRow's inside
\* the loop, any other before the loop.
ProxyInitializerPlacement ==
    (GenDone /\ argMapFunc.anyContainerParams # << >>) =>
        LET subs == LastSubstitutions
            innerText == SlotValue(subs, "SKEPU_CONTAINER_PROXIE_INNER")
            outerText == SlotValue(subs, "SKEPU_CONTAINER_PROXIES")
            plain == PlainlySpelt(argMapFunc)
        IN
        \A k \in 1 .. Len(argMapFunc.anyContainerParams) :
            LET param == argMapFunc.anyContainerParams[k]
                head == InitializerHead(param)
                inner == Positions(head, innerText)
                outer == Positions(head, outerText)
                final == Positions(head, finalSource)
            IN  param.containerType \in HandledKinds =>
                  IF param.containerType = "MatRow"
                  THEN /\ Cardinality(inner) = 1
                       /\ outer = {}
                       /\ InsideLoop(MapPairsKernelTemplate_CL,
                                     SlotAt("SKEPU_CONTAINER_PROXIE_INNER"))
                       /\ plain =>
                             /\ Cardinality(final) = 1
                             /\ \A j \in final : InsideLoop(finalSource, j)
                  ELSE /\ Cardinality(outer) = 1
                       /\ inner = {}
                       /\ BeforeLoop(MapPairsKernelTemplate_CL,
                                     SlotAt("SKEPU_CONTAINER_PROXIES"))
                       /\ plain =>
                             /\ Cardinality(final) = 1
                             /\ \A j \in final : BeforeLoop(finalSource, j)

\* A plainly spelt function with a MatRow and a Vector.
ProxyInitializerWitness ==
    /\ GenDone
    /\ PlainlySpelt(argMapFunc)
    /\ Len(argMapFunc.anyContainerParams) = 2
    /\ argMapFunc.anyContainerParams[1].containerType = "MatRow"
    /\ argMapFunc.anyContainerParams[2].containerType = "Vector"
    /\ \E j \in Positions(InitializerHead(argMapFunc.anyContainerParams[1]), finalSource) :
          InsideLoop(finalSource, j)
    /\ \E j \in Positions(InitializerHead(argMapFunc.anyContainerParams[2]), finalSource) :
          BeforeLoop(finalSource, j)

(***************************************************************************)
(* C10: the names of the kernels of one run.                               *)
(***************************************************************************)

\* Unique names of user functions; a name may itself end like the suffix
\* the kernel name adds.
UniqueNames == {"f", "f_Varity_1"}

\* Skeleton instances that differ in the name of the function or in an arity.
NamedFunctions ==
    {[NoParams(u) EXCEPT !.Varity = V, !.Harity = H] :
        u \in UniqueNames, V \in 0 .. MaxNameArity, H \in 0 .. MaxNameArity}

\* A run generates the artifacts of its instances one after the other; two
\* of them are what a statement about pairs needs.
GenerateNamed ==
    /\ Len(generated) <= 1
    /\ \E f \in NamedFunctions : Generate(f, f.Varity, f.Harity)

InitNaming ==
    /\ KernelIdle
    /\ HostIdle
    /\ ResultName \in ResultNames
    /\ GenFresh

SpecNaming == InitNaming /\ [][GenerateNamed]_vars

\* C10: two calls of one run give the same kernel name exactly when they
\* agree on the unique name, the vertical and the horizontal arity.
KernelNameInjective ==
    \A a, b \in 1 .. Len(generated) :
        (generated[a].kernelName = generated[b].kernelName)
            <=> (/\ generated[a].uniqueName = generated[b].uniqueName
                 /\ generated[a].Varity = generated[b].Varity
                 /\ generated[a].Harity = generated[b].Harity)

\* Arities 1 and 11, then 11 and 1, of the same function.
KernelNameWitness ==
    /\ Len(generated) = 2
    /\ generated[1].uniqueName = generated[2].uniqueName
    /\ generated[1].Varity = 1 /\ generated[1].Harity = 11
    /\ generated[2].Varity = 11 /\ generated[2].Harity = 1
    /\ generated[1].kernelName # generated[2].kernelName

====
